---- MODULE Spec2Model ----
(***************************************************************************)
(* Nova: configuration scope merge and the marketplace add / remove / list *)
(* / get operations (src/nova/config, src/nova/marketplace,                *)
(* src/nova/datastore).                                                    *)
(*                                                                         *)
(* The file system is modelled by four variables: the three scope files,   *)
(* the install-state data file, the per-name install directories under the *)
(* data root, and the temporary clone directory of the running add call.   *)
(* An I/O error (OSError) of a write is raised before any byte reaches the *)
(* file (permission, read-only file system, mkdir failure).                *)
(***************************************************************************)
EXTENDS Integers, Sequences, FiniteSets, TLC

VARIABLES
    files,        \* scope |-> [exists, root, marketplaces, extra]: the YAML file of each scope
    dataFile,     \* [exists, data]: <data>/marketplaces/data.json of FileDataStore
    installDir,   \* manifest name |-> content of <data>/marketplaces/<name>
    localDir,     \* content of the directory a LocalMarketplaceSource points to
    tmpDir,       \* content of the temp clone directory of the current/last add
    op,           \* the operation in progress (its local variables and result)
    last,         \* summary of the operation completed before the current one
    procs         \* concurrent add invocations: process |-> its position and local variables

vars == <<files, dataFile, installDir, localDir, tmpDir, op, last, procs>>

----------------------------------------------------------------------------
(* Data model                                                              *)

Names == {"a", "b"}                         \* manifest / marketplace names

GH  == [type |-> "github", loc |-> "o/r"]
GIT == [type |-> "git",    loc |-> "https://h/r.git"]
LOC == [type |-> "local",  loc |-> "/m"]
NoSource == [type |-> "none", loc |-> ""]

Scopes == {"global", "project", "user"}     \* ConfigScope (EFFECTIVE is not a file)
MarketplaceScope == {"global", "project"}
AnyScope == "any"                           \* scope=None of remove

Entry(n, s) == [name |-> n, source |-> s]   \* MarketplaceConfig

\* YAML values of the keys other than `marketplaces`: None, a scalar, a list
\* (kept whole), or a mapping from keys to values
None == [t |-> "none"]
Scalar(v) == [t |-> "scalar", v |-> v]
ListV(l) == [t |-> "list", l |-> l]
MapV(m) == [t |-> "map", m |-> m]
EmptyMap == [k \in {} |-> None]

\* A scope document: what yaml.safe_load gives for the file (`root`: a
\* mapping, something else, or text that is not YAML), the reserved
\* `marketplaces` list, and every other top-level key of the mapping
\* (logging, pass-through keys).  Doc(list) is what
\* yaml.safe_dump({"marketplaces": list}) produces.
OtherKeys ==
    [k \in {"logging", "theme"} |->
        IF k = "logging" THEN MapV([j \in {"log_level"} |-> Scalar("DEBUG")])
        ELSE Scalar("dark")]
NoFile == [exists |-> FALSE, root |-> "mapping", marketplaces |-> <<>>, extra |-> EmptyMap]
DocWith(list, extra) ==
    [exists |-> TRUE, root |-> "mapping", marketplaces |-> list, extra |-> extra]
Doc(list) == DocWith(list, EmptyMap)

\* Directory contents: the name in a valid marketplace.json, or why it is unusable
\* ("missing": no marketplace.json; "malformed": not JSON; "invalid": a JSON
\* object that fails the manifest schema)
BadManifests == {"missing", "malformed", "invalid"}
RemoteContents == Names \cup {"missing"}     \* what a clone can deliver
NoDir == "NoDir"

\* the marketplace directory the user keeps at the local path /m
InitLocalDir == "b"

\* install_location values
NoLocation == [root |-> "none", name |-> ""]
DataLocation(n) == [root |-> "data", name |-> n]
LocalLocation(s) == [root |-> "local", name |-> s.loc]

NoState == [present |-> FALSE, source |-> NoSource, install_location |-> NoLocation]
MarketplaceState(s, l) == [present |-> TRUE, source |-> s, install_location |-> l]

EmptyData == [n \in Names |-> NoState]
NoDataFile == [exists |-> FALSE, data |-> EmptyData]

----------------------------------------------------------------------------
(* Generic sequence helpers                                                *)

RECURSIVE SeqNames(_)
SeqNames(list) ==
    IF list = <<>> THEN <<>> ELSE <<Head(list).name>> \o SeqNames(Tail(list))

NameSet(list) == {list[i].name : i \in 1..Len(list)}
Count(list, n) == Cardinality({i \in 1..Len(list) : list[i].name = n})
Distinct(list) == \A i, j \in 1..Len(list) : list[i].name = list[j].name => i = j

\* (variant: the first entry of the list is dropped, whatever its index)
RemoveHead(list, k) == Tail(list)
RemoveAt(list, k) == [i \in 1..(Len(list) - 1) |-> IF i < k THEN list[i] ELSE list[i + 1]]
FirstIndex(list, n) ==
    IF n \in NameSet(list)
    THEN CHOOSE i \in 1..Len(list) :
            list[i].name = n /\ \A j \in 1..(i - 1) : list[j].name # n
    ELSE 0

----------------------------------------------------------------------------
(* config/merger.py                                                        *)

\* (variant: _append keeps the index of the first entry of a name)
BaseIndexKeepFirst(base) ==
    [n \in Names |->
        IF n \in NameSet(base)
        THEN CHOOSE i \in 1..Len(base) :
                base[i].name = n /\ \A j \in 1..(i - 1) : base[j].name # n
        ELSE 0]
\* index_by_name after the loop over base_marketplaces: each _append stores
\* len(merged) - 1 under the entry's name, so a later entry of the same name
\* overwrites the index of an earlier one (0 = name not in the dict).
BaseIndex(base) ==
    [n \in Names |->
        IF n \in NameSet(base)
        THEN CHOOSE i \in 1..Len(base) :
                base[i].name = n /\ \A j \in (i + 1)..Len(base) : base[j].name # n
        ELSE 0]

\* the loop over override_marketplaces
RECURSIVE MergeOverride(_, _, _)
MergeOverride(merged, index_by_name, override) ==
    IF override = <<>> THEN merged
    ELSE LET entry == Head(override)
             name == entry.name
         IN IF index_by_name[name] # 0
            THEN MergeOverride([merged EXCEPT ![index_by_name[name]] = entry],
                               index_by_name, Tail(override))
            ELSE MergeOverride(Append(merged, entry),
                               [index_by_name EXCEPT ![name] = Len(merged) + 1],
                               Tail(override))

_merge_marketplaces(base, override) ==
    MergeOverride(base, BaseIndex(base), override)

\* deep_merge restricted to the reserved key: merged_data either lacks the
\* key (has = FALSE) or maps it to a list.  An existing value that is not a
\* list (result.get(key) is None) is replaced by the override value as is.
deep_merge(merged_data, scope_list) ==
    IF merged_data.has
    THEN [has |-> TRUE, list |-> _merge_marketplaces(merged_data.list, scope_list)]
    ELSE [has |-> TRUE, list |-> scope_list]

\* merge_configs: scopes that are None are skipped, order global, project, user
MergeScope(merged_data, doc) ==
    IF doc.exists THEN deep_merge(merged_data, doc.marketplaces) ELSE merged_data

merge_configs(global_cfg, project_cfg, user_cfg) ==
    MergeScope(MergeScope(MergeScope([has |-> FALSE, list |-> <<>>], global_cfg), project_cfg), user_cfg).list

\* _strip_none_dict: keys whose value is None are dropped, at every depth of
\* nested mappings (not inside lists)
RECURSIVE _strip_none_dict(_)
_strip_none_dict(data) ==
    [k \in {j \in DOMAIN data : data[j].t # "none"} |->
        IF data[k].t = "map" THEN MapV(_strip_none_dict(data[k].m)) ELSE data[k]]

\* _config_list_merge for a key other than "marketplaces"
_config_list_merge(base_list, override_list) == override_list

\* (variant: `if not override_value: continue`, falsy values are skipped too)
RECURSIVE deep_merge_skip_falsy(_, _)
deep_merge_skip_falsy(base, override) ==
    LET set == {k \in DOMAIN override :
                   /\ override[k].t # "none"
                   /\ ~(override[k].t = "scalar" /\ override[k].v \in {"0", "false", ""})}
    IN [k \in DOMAIN base \cup set |->
           IF k \notin set THEN base[k]
           ELSE IF k \in DOMAIN base /\ base[k].t = "map" /\ override[k].t = "map"
                THEN MapV(deep_merge_skip_falsy(base[k].m, override[k].m))
           ELSE IF k \in DOMAIN base /\ base[k].t = "list" /\ override[k].t = "list"
                THEN ListV(_config_list_merge(base[k].l, override[k].l))
           ELSE override[k]]
\* (variant: two mappings are not merged, the override mapping replaces)
RECURSIVE deep_merge_shallow(_, _)
deep_merge_shallow(base, override) ==
    LET set == {k \in DOMAIN override : override[k].t # "none"}
    IN [k \in DOMAIN base \cup set |->
           IF k \notin set THEN base[k]
           ELSE IF k \in DOMAIN base /\ base[k].t = "list" /\ override[k].t = "list"
                THEN ListV(_config_list_merge(base[k].l, override[k].l))
           ELSE override[k]]
\* utils/dicts.py deep_merge on the keys other than "marketplaces": an
\* override value of None is skipped, two mappings are merged recursively,
\* two lists go to the list strategy, anything else is replaced
RECURSIVE deep_merge_other(_, _)
deep_merge_other(base, override) ==
    LET set == {k \in DOMAIN override : override[k].t # "none"}
    IN [k \in DOMAIN base \cup set |->
           IF k \notin set THEN base[k]
           ELSE IF k \in DOMAIN base /\ base[k].t = "map" /\ override[k].t = "map"
                THEN MapV(deep_merge_other(base[k].m, override[k].m))
           ELSE IF k \in DOMAIN base /\ base[k].t = "list" /\ override[k].t = "list"
                THEN ListV(_config_list_merge(base[k].l, override[k].l))
           ELSE override[k]]

\* merge_configs on the keys other than "marketplaces"
MergeOther(merged_data, doc) ==
    IF doc.exists THEN deep_merge_other(merged_data, _strip_none_dict(doc.extra))
    ELSE merged_data

merge_other_keys(global_cfg, project_cfg, user_cfg) ==
    MergeOther(MergeOther(MergeOther(EmptyMap, global_cfg), project_cfg), user_cfg)

----------------------------------------------------------------------------
(* config/resolver.py                                                      *)

\* _deep_merge: two mappings are merged recursively, anything else, None
\* included, replaces the existing value
RECURSIVE _deep_merge(_, _)
_deep_merge(base, override) ==
    [k \in DOMAIN base \cup DOMAIN override |->
        IF k \notin DOMAIN override THEN base[k]
        ELSE IF k \in DOMAIN base /\ base[k].t = "map" /\ override[k].t = "map"
             THEN MapV(_deep_merge(base[k].m, override[k].m))
        ELSE override[k]]

\* config.model_dump() of the merged NovaConfig and NovaConfig.model_validate
\* of the overlaid mapping: `marketplaces` must be a list
ConfigDump(config) ==
    [k \in DOMAIN config.other \cup {"marketplaces"} |->
        IF k = "marketplaces" THEN ListV(config.marketplaces) ELSE config.other[k]]
ConfigValidate(data) ==
    IF data["marketplaces"].t = "list"
    THEN [ok |-> TRUE, marketplaces |-> data["marketplaces"].l,
          other |-> [k \in DOMAIN data \ {"marketplaces"} |-> data[k]]]
    ELSE [ok |-> FALSE, marketplaces |-> <<>>, other |-> EmptyMap]

\* (variant: a marketplaces overlay list is merged by name into the config's list)
apply_env_overrides_merge_by_name(config, override_data) ==
    IF override_data = EmptyMap
    THEN [ok |-> TRUE, marketplaces |-> config.marketplaces, other |-> config.other]
    ELSE LET merged == _deep_merge(ConfigDump(config), override_data)
             v == ConfigValidate(merged)
         IN IF v.ok /\ "marketplaces" \in DOMAIN override_data
            THEN [v EXCEPT !.marketplaces =
                     _merge_marketplaces(config.marketplaces, v.marketplaces)]
            ELSE v
\* apply_env_overrides; override_data is the mapping _insert_override builds
\* from the NOVA_CONFIG__ variables and their values parsed as YAML
apply_env_overrides(config, override_data) ==
    IF override_data = EmptyMap
    THEN [ok |-> TRUE, marketplaces |-> config.marketplaces, other |-> config.other]
    ELSE ConfigValidate(_deep_merge(ConfigDump(config), override_data))

----------------------------------------------------------------------------
(* config/file/store.py: reading                                           *)

\* _load_scope_config: YAML parse, root must be a mapping, model validation
\* (ProjectConfig and UserConfig reject a `logging` key)
LoadErr(e) == [ok |-> FALSE, error |-> e]
_load_scope_config(doc, scope) ==
    IF doc.root = "not_yaml" THEN LoadErr("ConfigYamlError")
    ELSE IF doc.root # "mapping" THEN LoadErr("ConfigValidationError")
    ELSE IF scope # "global" /\ "logging" \in DOMAIN doc.extra
         THEN LoadErr("ConfigValidationError")
    ELSE [ok |-> TRUE, error |-> ""]

\* _load_optional: a scope without file is Ok(None) and is not read
_load_optional(doc, scope) ==
    IF ~doc.exists THEN [ok |-> TRUE, error |-> ""] ELSE _load_scope_config(doc, scope)
Read(f, scope) == IF f[scope].exists THEN <<scope>> ELSE <<>>

\* (variant: every scope is loaded before the first error is returned)
_load_all_scopes_eager(f) ==
    LET g == _load_optional(f["global"], "global")
        p == _load_optional(f["project"], "project")
        u == _load_optional(f["user"], "user")
        all == Read(f, "global") \o Read(f, "project") \o Read(f, "user")
    IN IF ~g.ok THEN [ok |-> FALSE, error |-> g.error, scope |-> "global", reads |-> all]
       ELSE IF ~p.ok THEN [ok |-> FALSE, error |-> p.error, scope |-> "project", reads |-> all]
       ELSE IF ~u.ok THEN [ok |-> FALSE, error |-> u.error, scope |-> "user", reads |-> all]
       ELSE [ok |-> TRUE, error |-> "", scope |-> "", reads |-> all]
\* _load_all_scopes: GLOBAL, PROJECT, USER, returning at the first error
_load_all_scopes(f) ==
    LET g == _load_optional(f["global"], "global")
        p == _load_optional(f["project"], "project")
        u == _load_optional(f["user"], "user")
    IN IF ~g.ok THEN [ok |-> FALSE, error |-> g.error, scope |-> "global",
                      reads |-> Read(f, "global")]
       ELSE IF ~p.ok THEN [ok |-> FALSE, error |-> p.error, scope |-> "project",
                           reads |-> Read(f, "global") \o Read(f, "project")]
       ELSE IF ~u.ok THEN [ok |-> FALSE, error |-> u.error, scope |-> "user",
                           reads |-> Read(f, "global") \o Read(f, "project")
                                        \o Read(f, "user")]
       ELSE [ok |-> TRUE, error |-> "", scope |-> "",
             reads |-> Read(f, "global") \o Read(f, "project") \o Read(f, "user")]

\* FileConfigStore.load with no NOVA_CONFIG__ variable set
\* (apply_env_overrides returns its input unchanged), for scope files that
\* all load: the merged marketplaces list
load(f) == merge_configs(f["global"], f["project"], f["user"])

get_marketplace_config(f) == load(f)

\* (variant: the duplicate check also treats a saved install state as a match)
has_marketplace_or_state(f, name, source) ==
    \/ \E i \in 1..Len(get_marketplace_config(f)) :
          \/ get_marketplace_config(f)[i].name = name
          \/ get_marketplace_config(f)[i].source = source
    \/ dataFile.exists /\ name \in Names /\ dataFile.data[name].present
has_marketplace(f, name, source) ==
    \E i \in 1..Len(get_marketplace_config(f)) :
        \/ get_marketplace_config(f)[i].name = name
        \/ get_marketplace_config(f)[i].source = source

\* MarketplaceConfig.model_dump: the source keeps its type and the one field
\* of its class (repo, url or path)
model_dump(config) ==
    [name |-> config.name,
     source |-> CASE config.source.type = "github" ->
                       [type |-> "github", repo |-> config.source.loc]
                  [] config.source.type = "git" ->
                       [type |-> "git", url |-> config.source.loc]
                  [] OTHER ->
                       [type |-> "local", path |-> config.source.loc]]

\* MarketplaceConfig.model_validate: the union member is chosen by `type`,
\* a path must be an existing directory (DirectoryPath)
model_validate(raw) ==
    CASE raw.source.type = "github" ->
            [ok |-> TRUE, config |-> Entry(raw.name, [type |-> "github", loc |-> raw.source.repo])]
      [] raw.source.type = "git" ->
            [ok |-> TRUE, config |-> Entry(raw.name, [type |-> "git", loc |-> raw.source.url])]
      [] OTHER ->
            [ok |-> raw.source.path \in {"/m"},
             config |-> Entry(raw.name, [type |-> "local", loc |-> raw.source.path])]

\* load_scope: Ok(None) for a scope without file, otherwise
\* NovaConfig.model_validate(config.model_dump())
load_scope(f, scope) ==
    IF ~f[scope].exists THEN [ok |-> TRUE, none |-> TRUE, marketplaces |-> <<>>]
    ELSE LET list == f[scope].marketplaces
             loaded == [i \in 1..Len(list) |-> model_validate(model_dump(list[i]))]
         IN [ok |-> \A i \in 1..Len(list) : loaded[i].ok,
             none |-> FALSE,
             marketplaces |-> [i \in 1..Len(list) |-> loaded[i].config]]

----------------------------------------------------------------------------
(* Concurrent processes (none while a single invocation runs)              *)

NoProcs == <<>>

----------------------------------------------------------------------------
(* The operation record                                                    *)

NoSnap == [files |-> [s \in Scopes |-> NoFile], dataFile |-> NoDataFile,
           installDir |-> [n \in Names |-> NoDir]]

Idle == [kind |-> "none", pc |-> "idle", input |-> "", scope |-> "",
         source |-> NoSource, dir |-> NoLocation, name |-> "",
         state |-> NoState, result |-> "none", failedAt |-> "",
         steps |-> <<>>, calls |-> {}, fault |-> FALSE, info |-> "",
         merged |-> <<>>, loaded |-> {}, listed |-> <<>>,
         reads |-> <<>>, error_scope |-> "", effective |-> EmptyMap,
         env |-> EmptyMap, snap |-> NoSnap,
         prior |-> [name |-> "", scope |-> "", snap |-> NoSnap]]

Summary(o) == [kind |-> o.kind, input |-> o.input, scope |-> o.scope,
               name |-> o.name, result |-> o.result, failedAt |-> o.failedAt]

\* `last` remembers the previous operation only when it stopped inside one of
\* the two non-atomic windows: add after the state was saved, remove after the
\* config entry was removed
Remember(o) ==
    IF \/ o.kind = "add" /\ o.failedAt = "save_config"
       \/ o.kind = "remove" /\ o.failedAt \in {"load_state", "delete_state", "cleanup"}
    THEN Summary(o)
    ELSE Summary([kind |-> "none", input |-> "", scope |-> "", name |-> "",
                  result |-> "none", failedAt |-> ""])

CanStart == op.pc \in {"idle", "done"}

\* what a remove keeps of the call before it when that call was a successful
\* add: the name and scope added and the state the add started from
Prior(kind, o) ==
    IF kind = "remove" /\ o.kind = "add" /\ o.pc = "done" /\ o.result = "ok"
    THEN [name |-> o.name, scope |-> o.scope, snap |-> o.snap]
    ELSE Idle.prior

\* a fresh operation record; the previous one moves to `last`
Begin(kind, input, scope) ==
    [Idle EXCEPT !.kind = kind, !.input = input, !.scope = scope,
                 !.result = "pending", !.prior = Prior(kind, op),
                 !.snap = [files |-> files, dataFile |-> dataFile,
                           installDir |-> installDir]]

----------------------------------------------------------------------------
(* marketplace/sources.py: parse_source                                    *)

\* Inputs are sequences of characters; the named pieces below are the
\* prefixes and the suffix the code tests for.
Https == <<"h", "t", "t", "p", "s", ":", "/", "/">>
Http == <<"h", "t", "t", "p", ":", "/", "/">>
GitAt == <<"g", "i", "t", "@">>
GitProto == <<"g", "i", "t", ":", "/", "/">>
DotGit == <<".", "g", "i", "t">>

\* characters of the class [a-zA-Z0-9_-]
WordChars == {"a", "b", "g", "h", "i", "m", "o", "p", "r", "s", "t"}

StartsWith(value, prefix) ==
    Len(value) >= Len(prefix) /\ SubSeq(value, 1, Len(prefix)) = prefix
EndsWith(value, suffix) ==
    Len(value) >= Len(suffix)
        /\ SubSeq(value, Len(value) - Len(suffix) + 1, Len(value)) = suffix

\* str.strip()
strip(source) ==
    LET kept == {i \in 1..Len(source) : source[i] # " "}
    IN IF kept = {} THEN <<>>
       ELSE SubSeq(source, CHOOSE i \in kept : \A j \in kept : i <= j,
                           CHOOSE i \in kept : \A j \in kept : i >= j)

\* re.fullmatch(r"[a-zA-Z0-9_-]+/[a-zA-Z0-9_.-]+", value)
github_fullmatch(value) ==
    \E i \in 2..(Len(value) - 1) :
        /\ value[i] = "/"
        /\ \A j \in 1..(i - 1) : value[j] \in WordChars
        /\ \A j \in (i + 1)..Len(value) : value[j] \in WordChars \cup {"."}

\* the field type GitHubRepo: pattern ^[a-zA-Z0-9_-]+/[a-zA-Z0-9_.-]+$
GitHubRepo(value) ==
    \E i \in 2..(Len(value) - 1) :
        /\ value[i] = "/"
        /\ \A j \in 1..(i - 1) : value[j] \in WordChars
        /\ \A j \in (i + 1)..Len(value) : value[j] \in WordChars \cup {"."}

\* the field type GitUrl: pattern ^(https?://|git@|git://)
GitUrl(value) ==
    \/ StartsWith(value, Https) \/ StartsWith(value, Http)
    \/ StartsWith(value, GitAt) \/ StartsWith(value, GitProto)

\* urlparse(value): scheme in {"http", "https"} and a non-empty netloc (the
\* text between "//" and the next "/")
HttpWithHost(value) ==
    \E prefix \in {Http, Https} :
        /\ StartsWith(value, prefix)
        /\ Len(value) > Len(prefix)
        /\ value[Len(prefix) + 1] # "/"

\* each _try_* gives "none" (returns None: the next one is tried), the source
\* type of an Ok, or "error" for the Err built from the model's ValidationError;
\* an Err is a truthy object, so parse_source returns it without trying more
_try_github_source(value) ==
    IF ~github_fullmatch(value) THEN "none"
    ELSE IF GitHubRepo(value) THEN "github" ELSE "error"

_try_git_source(value) ==
    LET is_git == \/ StartsWith(value, GitAt) \/ StartsWith(value, GitProto)
                  \/ EndsWith(value, DotGit)
                  \/ HttpWithHost(value)
    IN IF ~is_git THEN "none"
       ELSE IF GitUrl(value) THEN "git" ELSE "error"

\* parse_source on the characters of the input; is_dir says whether the
\* trimmed input, resolved against the working directory, is a directory
parse_text(source, is_dir) ==
    LET normalized == strip(source)
    IN IF normalized = <<>> THEN "error"
       ELSE IF _try_github_source(normalized) # "none"
            THEN _try_github_source(normalized)
       ELSE IF _try_git_source(normalized) # "none"
            THEN _try_git_source(normalized)
       ELSE \* _try_local_source: DirectoryPath wants an existing directory
            IF is_dir THEN "local" ELSE "error"

\* raw command-line inputs of add and remove, and their characters
AddInputs == {"o/r", "/m", " "}           \* inputs given to add
RemoveInputs == {"a", "b", "o/r", "/m"}   \* inputs given to remove
Text(raw) ==
    CASE raw = "o/r" -> <<"o", "/", "r">>
      [] raw = "https://h/r.git" -> Https \o <<"h", "/", "r">> \o DotGit
      [] raw = "/m" -> <<"/", "m">>
      [] raw = "a" -> <<"a">>
      [] raw = "b" -> <<"b">>
      [] raw = " " -> <<" ">>
\* no raw input but the blank one has blanks around it
Strip(raw) == IF strip(Text(raw)) = <<>> THEN "" ELSE raw
Directories == {"/m"}                \* paths that exist as a directory

ParseErr == [ok |-> FALSE, source |-> NoSource]
ParseOk(t, v) == [ok |-> TRUE, source |-> [type |-> t, loc |-> v]]

parse_source(raw) ==
    LET normalized == Strip(raw)
        type == parse_text(Text(raw), normalized \in Directories)
    IN IF type = "error" THEN ParseErr ELSE ParseOk(type, normalized)

----------------------------------------------------------------------------
(* Directories and the manifest validator                                  *)

Content(dir) ==
    CASE dir.root = "tmp" -> tmpDir
      [] dir.root = "local" -> localDir
      [] dir.root = "data" -> installDir[dir.name]
      [] OTHER -> NoDir

\* load_and_validate_marketplace: Ok(manifest) only for a readable, valid file
validate_marketplace(content) ==
    IF content \in Names THEN [ok |-> TRUE, name |-> content]
    ELSE [ok |-> FALSE, name |-> ""]

\* _attach_marketplace_info and the same lines inside
\* _build_marketplace_infos_from_configs: a manifest that does not exist gives
\* an info with description "" and bundle_count 0; one that exists is passed
\* to json.loads without a guard and without schema validation
ManifestExists(content) == content \in Names \cup {"malformed", "invalid"}
_attach_marketplace_info(state) ==
    IF ManifestExists(Content(state.install_location))
          /\ Content(state.install_location) = "malformed"
    THEN "raised" ELSE "ok"

----------------------------------------------------------------------------
(* datastore/file.py                                                       *)

\* (variant: the read-modify-write forgets existing_data[key] = data)
save_without_key(df, key, data) == [exists |-> TRUE, data |-> df.data]
save(df, key, data) == [exists |-> TRUE, data |-> [df.data EXCEPT ![key] = data]]

HasKey(df, key) == df.exists /\ key \in Names /\ df.data[key].present

\* (variant: delete writes an empty object back)
delete_every_key(df, key) ==
    IF HasKey(df, key) THEN [df EXCEPT !.data = EmptyData] ELSE df
\* (variant: delete returns Ok without writing)
delete_nothing(df, key) == df
\* delete: a missing file or key is Ok(None) and nothing is written
delete(df, key) ==
    IF HasKey(df, key) THEN [df EXCEPT !.data[key] = NoState] ELSE df

\* FileDataStore.load: the stored value, or NoState for DataStoreKeyNotFoundError
\* (no data file, or the key is not in it)
datastore_load(df, key) == IF HasKey(df, key) THEN df.data[key] ELSE NoState

Records == {n \in Names : HasKey(dataFile, n)}

----------------------------------------------------------------------------
(* config/file/store.py: writing                                           *)

\* (variant: the entry is put in front of the existing list)
add_marketplace_prepend(f, config, scope) ==
    [f EXCEPT ![scope] = Doc(<<config>> \o load_scope(f, scope).marketplaces)]
\* (variant: config_scope is PROJECT for every scope)
add_marketplace_project_only(f, config, scope) ==
    [f EXCEPT !["project"] = Doc(Append(load_scope(f, "project").marketplaces, config))]
\* (variant: a PROJECT entry is written to the USER file config.local.yaml)
add_marketplace_local_file(f, config, scope) ==
    LET config_scope == IF scope = "global" THEN "global" ELSE "user"
    IN [f EXCEPT ![config_scope] =
           Doc(Append(load_scope(f, config_scope).marketplaces, config))]
\* add_marketplace up to the write: config_scope is GLOBAL or PROJECT, the
\* list written is the one load_scope returned (empty for None) plus the entry
add_marketplace(f, config, scope) ==
    LET config_scope == IF scope = "global" THEN "global" ELSE "project"
    IN [f EXCEPT ![config_scope] =
           Doc(Append(load_scope(f, config_scope).marketplaces, config))]

RemoveResult(f, r, e) == [files |-> f, result |-> r, removed |-> e]
NoEntry == [name |-> "", source |-> NoSource]

\* _remove_from_scope; write_ok is whether _write_scope_data succeeds
_remove_from_scope(f, name, scope, write_ok) ==
    LET list == f[scope].marketplaces
        index == FirstIndex(list, name)
    IN IF ~f[scope].exists \/ list = <<>> THEN RemoveResult(f, "NotFoundError", NoEntry)
       ELSE IF index = 0 THEN RemoveResult(f, "NotFoundError", NoEntry)
       ELSE IF ~write_ok THEN RemoveResult(f, "ConfigSaveError", NoEntry)
       ELSE RemoveResult([f EXCEPT ![scope] = Doc(RemoveAt(list, index))], "ok", list[index])

\* (variant: an explicit scope is ignored, both scopes are always tried)
remove_marketplace_every_scope(f, name, scope, write_ok) ==
    LET project == _remove_from_scope(f, name, "project", write_ok["project"])
        global == _remove_from_scope(f, name, "global", write_ok["global"])
    IN IF project.result = "ok" THEN project
       ELSE IF global.result = "ok" THEN global
       ELSE RemoveResult(f, "NotFoundError", NoEntry)
\* remove_marketplace; scope "any" is scope=None: PROJECT then GLOBAL, the
\* first success is returned, any error of a scope moves on to the next
remove_marketplace(f, name, scope, write_ok) ==
    IF scope # AnyScope THEN _remove_from_scope(f, name, scope, write_ok[scope])
    ELSE LET project == _remove_from_scope(f, name, "project", write_ok["project"])
             global == _remove_from_scope(f, name, "global", write_ok["global"])
         IN IF project.result = "ok" THEN project
            ELSE IF global.result = "ok" THEN global
            ELSE RemoveResult(f, "NotFoundError", NoEntry)

----------------------------------------------------------------------------
(* ConfigStore.load as an operation (config show)                          *)

Load ==
    /\ CanStart
    /\ LET r == _load_all_scopes(files)
           o == [Begin("load", "", "") EXCEPT !.pc = "done", !.steps = <<"load">>,
                                              !.reads = r.reads]
       IN op' = IF r.ok
                THEN [o EXCEPT !.result = "ok", !.merged = load(files),
                               !.effective = merge_other_keys(files["global"],
                                                 files["project"], files["user"])]
                ELSE [o EXCEPT !.result = r.error, !.failedAt = "load",
                               !.error_scope = r.scope]
    /\ last' = Remember(op)
    /\ UNCHANGED <<files, dataFile, installDir, localDir, tmpDir>>
    /\ UNCHANGED procs

\* ConfigStore.load in a process whose environment holds NOVA_CONFIG__
\* variables: the ValidationError of NovaConfig.model_validate is not caught
EnvOverrides ==
    LET lists == {<<>>, <<Entry("b", LOC)>>, <<Entry("a", LOC), Entry("b", GH)>>}
        leaves == {None, Scalar("0"), Scalar("x"), ListV(<<"e">>)}
        maps == {MapV([k \in {"x"} |-> v]) : v \in leaves}
    IN {[k \in {"marketplaces"} |-> ListV(l)] : l \in lists}
       \cup {[k \in {"marketplaces"} |-> None]}
       \cup {[k \in {"p"} |-> v] : v \in leaves \cup maps}

LoadWithEnv ==
    /\ CanStart
    /\ \E override_data \in EnvOverrides :
          LET r == _load_all_scopes(files)
              o == [Begin("load", "", "") EXCEPT !.pc = "done", !.steps = <<"load">>,
                                                 !.reads = r.reads, !.env = override_data]
              config == [marketplaces |-> load(files),
                         other |-> merge_other_keys(files["global"], files["project"],
                                                    files["user"])]
              e == apply_env_overrides(config, override_data)
          IN op' = IF ~r.ok
                   THEN [o EXCEPT !.result = r.error, !.failedAt = "load",
                                  !.error_scope = r.scope]
                   ELSE IF ~e.ok
                        THEN [o EXCEPT !.result = "raised", !.failedAt = "load"]
                   ELSE [o EXCEPT !.result = "ok", !.merged = e.marketplaces,
                                  !.effective = e.other]
    /\ last' = Remember(op)
    /\ UNCHANGED <<files, dataFile, installDir, localDir, tmpDir>>
    /\ UNCHANGED procs

----------------------------------------------------------------------------
(* Scope merge on bounded arbitrary scope documents                        *)

MaxMergeLen == 2
MergeDocs ==
    {NoFile} \cup
    {Doc(l) : l \in UNION {[1..k -> [name : Names, source : {GH, LOC}]] :
                              k \in 0..MaxMergeLen}}

InitMerge ==
    /\ files \in [Scopes -> MergeDocs]
    /\ dataFile = NoDataFile
    /\ installDir = [n \in Names |-> NoDir]
    /\ localDir = "a"
    /\ tmpDir = NoDir
    /\ op = Idle
    /\ last = Summary(Idle)
    /\ procs = NoProcs

LoadOnce == op.pc = "idle" /\ Load

SpecMerge == InitMerge /\ [][LoadOnce]_vars

----------------------------------------------------------------------------
(* Scope merge of the keys other than `marketplaces`, and scope files that *)
(* do not load, on bounded arbitrary scope documents                       *)

Dicts ==
    LET leaves == {None, Scalar("0"), Scalar("false"), Scalar(""), Scalar("x"),
                   ListV(<<"i">>)}
        maps == {MapV([k \in {"x"} |-> v]) : v \in leaves}
                \cup {MapV([k \in {"x", "y"} |-> IF k = "x" THEN v ELSE Scalar("y")]) :
                         v \in leaves}
                \cup {MapV(EmptyMap), MapV([k \in {"y"} |-> Scalar("y")])}
    IN {EmptyMap} \cup {[k \in {"p"} |-> v] : v \in leaves \cup maps}
\* a file that is not YAML and one whose root is a list do not load
DictDocs ==
    {NoFile, DocWith(<<>>, OtherKeys),
     [exists |-> TRUE, root |-> "not_yaml", marketplaces |-> <<>>, extra |-> EmptyMap],
     [exists |-> TRUE, root |-> "list", marketplaces |-> <<>>, extra |-> EmptyMap]}
    \cup {DocWith(<<>>, d) : d \in Dicts}

InitDict ==
    /\ files \in [Scopes -> DictDocs]
    /\ dataFile = NoDataFile
    /\ installDir = [n \in Names |-> NoDir]
    /\ localDir = InitLocalDir
    /\ tmpDir = NoDir
    /\ op = Idle
    /\ last = Summary(Idle)
    /\ procs = NoProcs

SpecDict == InitDict /\ [][LoadOnce]_vars

----------------------------------------------------------------------------
(* Environment overrides on bounded scope documents                        *)

OverlayDocs ==
    [global |-> {Doc(<<>>), Doc(<<Entry("a", GH)>>), Doc(<<Entry("a", GH), Entry("b", LOC)>>)}
                   \cup {DocWith(<<>>, d) : d \in Dicts},
     project |-> {NoFile, Doc(<<Entry("b", GH)>>)},
     user |-> {NoFile}]

InitOverlay ==
    /\ files \in [Scopes -> UNION {OverlayDocs[s] : s \in Scopes}]
    /\ \A s \in Scopes : files[s] \in OverlayDocs[s]
    /\ dataFile = NoDataFile
    /\ installDir = [n \in Names |-> NoDir]
    /\ localDir = InitLocalDir
    /\ tmpDir = NoDir
    /\ op = Idle
    /\ last = Summary(Idle)
    /\ procs = NoProcs

LoadWithEnvOnce == op.pc = "idle" /\ LoadWithEnv

SpecOverlay == InitOverlay /\ [][LoadWithEnvOnce]_vars

----------------------------------------------------------------------------
(* marketplace/api.py: the two pipelines                                   *)

\* the and_then chain of Marketplace.add, followed by map(_build_marketplace_info)
\* (variants: the state is saved before the duplicate check; the config
\* entry is saved before the state)
add_pipeline_state_before_check ==
    <<"parse", "fetch", "validate", "move", "save_state", "check", "save_config", "info">>
add_pipeline_config_before_state ==
    <<"parse", "fetch", "validate", "check", "move", "save_config", "save_state", "info">>
add_pipeline ==
    <<"parse", "fetch", "validate", "check", "move", "save_state", "save_config", "info">>

\* the and_then chain of Marketplace.remove (map(_finalize_info) ends "cleanup")
remove_pipeline ==
    <<"resolve", "remove_config", "load_state", "delete_state", "cleanup">>

After(pipeline, step) ==
    LET i == CHOOSE k \in 1..Len(pipeline) : pipeline[k] = step
    IN IF i = Len(pipeline) THEN "done" ELSE pipeline[i + 1]

Step(o, s) == [o EXCEPT !.steps = Append(@, s)]
\* Err(...) returned by a step (or an exception raised in it): and_then skips the rest
Fail(o, s, err) == [o EXCEPT !.pc = "done", !.result = err, !.failedAt = s]
Called(o, c) == [o EXCEPT !.calls = @ \cup {c}]
\* an I/O error of the environment (not decided by the program state)
Fault(o) == [o EXCEPT !.fault = TRUE]

----------------------------------------------------------------------------
(* Marketplace.add                                                         *)

AddParseSource ==
    /\ CanStart
    /\ \E input \in AddInputs, scope \in MarketplaceScope :
          LET o == Step(Begin("add", input, scope), "parse")
              r == parse_source(input)
          IN op' = IF r.ok
                   THEN [o EXCEPT !.pc = After(add_pipeline, "parse"), !.source = r.source]
                   ELSE Fail(o, "parse", "SourceParseError")
    /\ last' = Remember(op)
    /\ tmpDir' = NoDir
    /\ UNCHANGED <<files, dataFile, installDir, localDir>>
    /\ UNCHANGED procs

\* _fetch_marketplace_to_temp: a local source is used in place, a remote one
\* is cloned into a fresh temp directory whose content the remote decides
AddFetch ==
    /\ op.kind = "add" /\ op.pc = "fetch"
    /\ LET o == Step(op, "fetch")
       IN IF op.source.type = "local"
          THEN /\ op' = [o EXCEPT !.pc = After(add_pipeline, "fetch"),
                                  !.dir = LocalLocation(op.source)]
               /\ UNCHANGED tmpDir
          ELSE \/ /\ op' = Fail(Fault(Called(o, "clone")), "fetch", "FetchError")
                  /\ UNCHANGED tmpDir
               \/ \E c \in RemoteContents :
                     /\ tmpDir' = c
                     /\ op' = [Called(o, "clone") EXCEPT !.pc = After(add_pipeline, "fetch"),
                                                         !.dir = [root |-> "tmp", name |-> ""]]
    /\ UNCHANGED <<files, dataFile, installDir, localDir, last>>
    /\ UNCHANGED procs

\* _validate_and_extract_manifest
AddValidate ==
    /\ op.kind = "add" /\ op.pc = "validate"
    /\ LET o == Step(op, "validate")
           r == validate_marketplace(Content(op.dir))
       IN op' = IF r.ok
                THEN [o EXCEPT !.pc = After(add_pipeline, "validate"), !.name = r.name]
                ELSE Fail(o, "validate", "InvalidManifestError")
    /\ UNCHANGED <<files, dataFile, installDir, localDir, tmpDir, last>>
    /\ UNCHANGED procs

\* _check_for_duplicate
AddCheckDuplicate ==
    /\ op.kind = "add" /\ op.pc = "check"
    /\ LET o == Step(op, "check")
       IN op' = IF has_marketplace(files, op.name, op.source)
                THEN Fail(o, "check", "AlreadyExistsError")
                ELSE [o EXCEPT !.pc = After(add_pipeline, "check")]
    /\ UNCHANGED <<files, dataFile, installDir, localDir, tmpDir, last>>
    /\ UNCHANGED procs

\* _move_to_final_location / _move_to_data_directory.  shutil.rmtree and
\* shutil.move are not guarded: an OSError leaves add as a raised exception,
\* either before anything changed or after the stale directory was removed.
AddMove ==
    /\ op.kind = "add" /\ op.pc = "move"
    /\ LET o == Step(op, "move")
       IN IF op.source.type = "local"
          THEN /\ op' = [o EXCEPT !.pc = After(add_pipeline, "move")]
               /\ UNCHANGED <<installDir, tmpDir>>
          ELSE \/ /\ installDir' = [installDir EXCEPT ![op.name] = Content(op.dir)]
                  /\ tmpDir' = NoDir
                  /\ op' = [Called(o, "move") EXCEPT !.pc = After(add_pipeline, "move"),
                                                     !.dir = DataLocation(op.name)]
               \/ /\ op' = Fail(Fault(Called(o, "move")), "move", "raised")
                  /\ UNCHANGED <<installDir, tmpDir>>
               \/ /\ installDir[op.name] # NoDir
                  /\ installDir' = [installDir EXCEPT ![op.name] = NoDir]
                  /\ op' = Fail(Fault(Called(o, "move")), "move", "raised")
                  /\ UNCHANGED tmpDir
    /\ UNCHANGED <<files, dataFile, localDir, last>>
    /\ UNCHANGED procs

\* _save_marketplace_state
AddSaveState ==
    /\ op.kind = "add" /\ op.pc = "save_state"
    /\ LET o == Called(Step(op, "save_state"), "datastore.save")
       IN \/ /\ dataFile' = save(dataFile, op.name, MarketplaceState(op.source, op.dir))
             /\ op' = [o EXCEPT !.pc = After(add_pipeline, "save_state")]
          \/ /\ op' = Fail(Fault(o), "save_state", "AddError")
             /\ UNCHANGED dataFile
    /\ UNCHANGED <<files, installDir, localDir, tmpDir, last>>
    /\ UNCHANGED procs

\* _save_to_config
AddSaveConfig ==
    /\ op.kind = "add" /\ op.pc = "save_config"
    /\ LET o == Called(Step(op, "save_config"), "config.write")
       IN \/ /\ files' = add_marketplace(files, Entry(op.name, op.source), op.scope)
             /\ op' = [o EXCEPT !.pc = After(add_pipeline, "save_config")]
          \/ /\ op' = Fail(Fault(o), "save_config", "AddError")
             /\ UNCHANGED files
    /\ UNCHANGED <<dataFile, installDir, localDir, tmpDir, last>>
    /\ UNCHANGED procs

\* _build_marketplace_info: json.loads of the manifest at final_location
AddBuildInfo ==
    /\ op.kind = "add" /\ op.pc = "info"
    /\ LET o == Step(op, "info")
       IN op' = IF Content(op.dir) \in Names
                THEN [o EXCEPT !.pc = After(add_pipeline, "info"), !.result = "ok",
                               !.info = op.name]
                ELSE Fail(o, "info", "raised")
    /\ UNCHANGED <<files, dataFile, installDir, localDir, tmpDir, last>>
    /\ UNCHANGED procs

----------------------------------------------------------------------------
(* Marketplace.remove                                                      *)

\* the first merged entry whose source equals the parsed source
MatchBySource(f, source) ==
    LET cfgs == get_marketplace_config(f)
        hits == {i \in 1..Len(cfgs) : cfgs[i].source = source}
    IN IF hits = {} THEN ""
       ELSE cfgs[CHOOSE i \in hits : \A j \in hits : i <= j].name

\* _resolve_marketplace_name
RemoveResolveName ==
    /\ CanStart
    /\ \E input \in RemoveInputs, scope \in MarketplaceScope \cup {AnyScope} :
          LET o == Step(Begin("remove", input, scope), "resolve")
              r == parse_source(input)
              match == MatchBySource(files, r.source)
          IN op' = IF ~r.ok
                   THEN [o EXCEPT !.pc = After(remove_pipeline, "resolve"), !.name = input]
                   ELSE IF match = ""
                        THEN Fail(o, "resolve", "NotFoundError")
                        ELSE [o EXCEPT !.pc = After(remove_pipeline, "resolve"),
                                       !.name = match]
    /\ last' = Remember(op)
    /\ tmpDir' = NoDir
    /\ UNCHANGED <<files, dataFile, installDir, localDir>>
    /\ UNCHANGED procs

\* _remove_from_config
RemoveFromConfig ==
    /\ op.kind = "remove" /\ op.pc = "remove_config"
    /\ \E write_ok \in [MarketplaceScope -> BOOLEAN] :
          LET r == remove_marketplace(files, op.name, op.scope, write_ok)
              tried == IF op.scope # AnyScope THEN {op.scope}
                       ELSE IF _remove_from_scope(files, op.name, "project",
                                                  write_ok["project"]).result = "ok"
                            THEN {"project"} ELSE {"project", "global"}
              io_error == \E sc \in tried :
                             _remove_from_scope(files, op.name, sc, write_ok[sc]).result
                                = "ConfigSaveError"
              o == IF io_error THEN Fault(Step(op, "remove_config"))
                   ELSE Step(op, "remove_config")
          IN /\ files' = r.files
             /\ op' = IF r.result = "ok"
                      THEN [o EXCEPT !.pc = After(remove_pipeline, "remove_config"),
                                     !.source = r.removed.source,
                                     !.info = r.removed.name]
                      ELSE Fail(o, "remove_config", r.result)
    /\ UNCHANGED <<dataFile, installDir, localDir, tmpDir, last>>
    /\ UNCHANGED procs

\* _load_state_and_info: datastore.load, then _attach_marketplace_info, whose
\* json.loads raises on a manifest that exists but is not JSON
RemoveLoadState ==
    /\ op.kind = "remove" /\ op.pc = "load_state"
    /\ LET o == Called(Step(op, "load_state"), "datastore.load")
       IN IF ~HasKey(dataFile, op.name)
          THEN \/ op' = [o EXCEPT !.pc = After(remove_pipeline, "load_state"),
                                  !.state = NoState]
               \/ /\ dataFile.exists
                  /\ op' = Fail(Fault(o), "load_state", "AddError")
          ELSE \/ op' = IF _attach_marketplace_info(dataFile.data[op.name]) = "raised"
                        THEN Fail(o, "load_state", "raised")
                        ELSE [o EXCEPT !.pc = After(remove_pipeline, "load_state"),
                                       !.state = dataFile.data[op.name]]
               \/ op' = Fail(Fault(o), "load_state", "AddError")
    /\ UNCHANGED <<files, dataFile, installDir, localDir, tmpDir, last>>
    /\ UNCHANGED procs

\* (variant: the `context.state is None` guard is missing)
RemoveDeleteStateUnguarded ==
    /\ op.kind = "remove" /\ op.pc = "delete_state"
    /\ LET o == Called(Step(op, "delete_state"), "datastore.delete")
       IN \/ /\ dataFile' = delete(dataFile, op.name)
             /\ op' = [o EXCEPT !.pc = After(remove_pipeline, "delete_state")]
          \/ /\ op' = Fail(Fault(o), "delete_state", "AddError")
             /\ UNCHANGED dataFile
    /\ UNCHANGED <<files, installDir, localDir, tmpDir, last>>
    /\ UNCHANGED procs

\* _delete_state_if_present
RemoveDeleteState ==
    /\ op.kind = "remove" /\ op.pc = "delete_state"
    /\ LET o == Step(op, "delete_state")
       IN IF ~op.state.present
          THEN /\ op' = [o EXCEPT !.pc = After(remove_pipeline, "delete_state")]
               /\ UNCHANGED dataFile
          ELSE \/ /\ dataFile' = delete(dataFile, op.name)
                  /\ op' = [Called(o, "datastore.delete") EXCEPT
                               !.pc = After(remove_pipeline, "delete_state")]
               \/ /\ op' = Fail(Fault(Called(o, "datastore.delete")), "delete_state",
                               "AddError")
                  /\ UNCHANGED dataFile
    /\ UNCHANGED <<files, installDir, localDir, tmpDir, last>>
    /\ UNCHANGED procs

\* shutil.rmtree(install_location): the directory the path names is deleted,
\* under the data root or where a local source lives
RmtreeInstall(loc) ==
    IF loc.root = "data" THEN [installDir EXCEPT ![loc.name] = NoDir] ELSE installDir
RmtreeLocal(loc) == IF loc.root = "local" THEN NoDir ELSE localDir

\* (variant: the isinstance(state.source, LocalMarketplaceSource) guard is missing)
RemoveCleanupDirectoryAnySource ==
    /\ op.kind = "remove" /\ op.pc = "cleanup"
    /\ LET o == Step(op, "cleanup")
           done == [o EXCEPT !.pc = After(remove_pipeline, "cleanup"), !.result = "ok"]
           loc == op.state.install_location
       IN IF ~op.state.present \/ Content(loc) = NoDir
          THEN /\ op' = done
               /\ UNCHANGED <<installDir, localDir>>
          ELSE \/ /\ installDir' = RmtreeInstall(loc)
                  /\ localDir' = RmtreeLocal(loc)
                  /\ op' = Called(done, "rmtree")
               \/ /\ op' = Fail(Fault(Called(o, "rmtree")), "cleanup", "raised")
                  /\ UNCHANGED <<installDir, localDir>>
    /\ UNCHANGED <<files, dataFile, tmpDir, last>>
    /\ UNCHANGED procs

\* _cleanup_directory_if_present, then map(_finalize_info)
RemoveCleanupDirectory ==
    /\ op.kind = "remove" /\ op.pc = "cleanup"
    /\ LET o == Step(op, "cleanup")
           done == [o EXCEPT !.pc = After(remove_pipeline, "cleanup"), !.result = "ok"]
           loc == op.state.install_location
       IN IF ~op.state.present \/ op.state.source.type = "local"
             \/ Content(loc) = NoDir
          THEN /\ op' = done
               /\ UNCHANGED <<installDir, localDir>>
          ELSE \/ /\ installDir' = RmtreeInstall(loc)
                  /\ localDir' = RmtreeLocal(loc)
                  /\ op' = Called(done, "rmtree")
               \/ /\ op' = Fail(Fault(Called(o, "rmtree")), "cleanup", "raised")
                  /\ UNCHANGED <<installDir, localDir>>
    /\ UNCHANGED <<files, dataFile, tmpDir, last>>
    /\ UNCHANGED procs

----------------------------------------------------------------------------
(* Marketplace.list and Marketplace.get                                    *)

\* the infos appended by the loop of _build_marketplace_infos_from_configs,
\* by state.name; `loaded` holds the names whose datastore.load returned Ok
RECURSIVE ListInfos(_, _)
ListInfos(configs, loaded) ==
    IF configs = <<>> THEN <<>>
    ELSE IF Head(configs).name \notin loaded THEN ListInfos(Tail(configs), loaded)
         ELSE <<Head(configs).name>> \o ListInfos(Tail(configs), loaded)

\* Marketplace.list; `unreadable` are the names whose datastore.load hits a
\* read error of the data file
List ==
    /\ CanStart
    /\ \E unreadable \in SUBSET {n \in Names : dataFile.exists} :
          LET configs == get_marketplace_config(files)
              loaded == {n \in NameSet(configs) : HasKey(dataFile, n) /\ n \notin unreadable}
              o == [Called(Step(Begin("list", "", ""), "list"), "datastore.load")
                       EXCEPT !.merged = configs, !.loaded = loaded,
                              !.fault = (unreadable \cap NameSet(configs) # {})]
          IN op' = IF \E n \in loaded : _attach_marketplace_info(dataFile.data[n]) = "raised"
                   THEN Fail(o, "list", "raised")
                   ELSE [o EXCEPT !.pc = "done", !.result = "ok",
                                  !.listed = ListInfos(configs, loaded)]
    /\ last' = Remember(op)
    /\ tmpDir' = NoDir
    /\ UNCHANGED <<files, dataFile, installDir, localDir>>
    /\ UNCHANGED procs

\* (variant: get drops the state record whose directory has no manifest)
GetDroppingRecord ==
    /\ CanStart
    /\ \E name \in Names :
          LET o == Called(Step(Begin("get", name, ""), "load_state"), "datastore.load")
              named == [o EXCEPT !.name = name]
              raised == /\ HasKey(dataFile, name)
                        /\ ~ManifestExists(Content(dataFile.data[name].install_location))
          IN /\ op' = IF ~HasKey(dataFile, name)
                      THEN Fail(named, "load_state", "NotFoundError")
                      ELSE IF raised THEN Fail(named, "attach", "NotFoundError")
                      ELSE [Step(named, "attach") EXCEPT !.pc = "done", !.result = "ok",
                                                         !.info = name]
             /\ dataFile' = IF raised THEN delete(dataFile, name) ELSE dataFile
    /\ last' = Remember(op)
    /\ tmpDir' = NoDir
    /\ UNCHANGED <<files, installDir, localDir>>
    /\ UNCHANGED procs
\* Marketplace.get: _load_marketplace_state, then _attach_marketplace_info
Get ==
    /\ CanStart
    /\ \E name \in Names, read_ok \in BOOLEAN :
          LET o == Called(Step(Begin("get", name, ""), "load_state"), "datastore.load")
              named == [o EXCEPT !.name = name]
          IN op' = IF ~HasKey(dataFile, name)
                   THEN Fail(named, "load_state", "NotFoundError")
                   ELSE IF ~read_ok
                   THEN Fail(Fault(named), "load_state", "NotFoundError")
                   ELSE LET s == [Step(named, "attach") EXCEPT
                                     !.state = dataFile.data[name], !.loaded = {name}]
                        IN IF _attach_marketplace_info(dataFile.data[name]) = "raised"
                           THEN Fail(s, "attach", "raised")
                           ELSE [s EXCEPT !.pc = "done", !.result = "ok", !.info = name]
    /\ last' = Remember(op)
    /\ tmpDir' = NoDir
    /\ UNCHANGED <<files, dataFile, installDir, localDir>>
    /\ UNCHANGED procs

----------------------------------------------------------------------------
(* The lifecycle specification                                             *)

\* scope documents the user may have written before the first command
InitDocs ==
    [global |-> {NoFile, DocWith(<<Entry("a", GH)>>, OtherKeys)},
     project |-> {NoFile, Doc(<<>>), Doc(<<Entry("a", LOC)>>)},
     user |-> {NoFile, Doc(<<Entry("b", GH)>>)}]

Init ==
    /\ files \in [Scopes -> UNION {InitDocs[s] : s \in Scopes}]
    /\ \A s \in Scopes : files[s] \in InitDocs[s]
    /\ dataFile = NoDataFile
    /\ installDir = [n \in Names |-> NoDir]
    /\ localDir = InitLocalDir
    /\ tmpDir = NoDir
    /\ op = Idle
    /\ last = Summary(Idle)
    /\ procs = NoProcs

Next ==
    \/ Load
    \/ AddParseSource \/ AddFetch \/ AddValidate \/ AddCheckDuplicate
    \/ AddMove \/ AddSaveState \/ AddSaveConfig \/ AddBuildInfo
    \/ RemoveResolveName \/ RemoveFromConfig \/ RemoveLoadState
    \/ RemoveDeleteState \/ RemoveCleanupDirectory
    \/ List \/ Get

Spec == Init /\ [][Next]_vars

----------------------------------------------------------------------------
(* list and get on bounded arbitrary installations                         *)

\* What list and get can find on disk: entries and records written by earlier
\* adds, and directories whose manifest the owner of a local directory, or an
\* interrupted move, has left missing or unreadable.
ReadDocs ==
    {Doc(<<>>), Doc(<<Entry("a", GH)>>), Doc(<<Entry("b", LOC)>>),
     Doc(<<Entry("a", GH), Entry("b", LOC)>>)}
ReadData ==
    {NoDataFile} \cup
    {[exists |-> TRUE, data |-> [a |-> ra, b |-> rb]] :
        ra \in {NoState, MarketplaceState(GH, DataLocation("a"))},
        rb \in {NoState, MarketplaceState(LOC, LocalLocation(LOC))}}

InitRead ==
    /\ files \in [Scopes -> ReadDocs \cup {NoFile}]
    /\ files["global"] \in ReadDocs
    /\ files["project"] = NoFile /\ files["user"] = NoFile
    /\ dataFile \in ReadData
    /\ installDir \in [Names -> Names \cup BadManifests \cup {NoDir}]
    /\ installDir["a"] \in {NoDir, "a", "missing", "malformed", "invalid"}
    /\ installDir["b"] = NoDir
    /\ localDir \in {NoDir, "b", "missing", "malformed", "invalid"}
    /\ tmpDir = NoDir
    /\ op = Idle
    /\ last = Summary(Idle)
    /\ procs = NoProcs

NextRead == List \/ Get

SpecRead == InitRead /\ [][NextRead]_vars

----------------------------------------------------------------------------
(* Two concurrent invocations of Marketplace.add for the same marketplace. *)
(* Nothing in the code locks the scope files, data.json or the data        *)
(* directory, so the steps of the two processes interleave at every file   *)
(* read and write.  Both processes add the github source o/r, whose        *)
(* manifest names marketplace "a", to the same scope; the environment      *)
(* causes no I/O error of its own.                                         *)

RaceProcs == {1, 2}
RaceName == "a"

\* config_scope of add_marketplace
ConfigScopeOf(scope) == IF scope = "global" THEN "global" ELSE "project"

\* the local variables of one invocation: its position, the manifest name and
\* source of what it adds, the temp clone, the
\* scope documents load() has read so far, whether final_location existed,
\* and what save() and load_scope() read before their writes
Proc(scope, name, source) ==
    [pc |-> "fetch", scope |-> scope, name |-> name, source |-> source, tmp |-> NoDir,
     seen |-> [s \in Scopes |-> NoFile], found |-> FALSE,
     existing_data |-> NoDataFile, existing_config |-> NoFile,
     result |-> "pending"]

InitRace ==
    /\ files \in [Scopes -> {NoFile, Doc(<<Entry("b", LOC)>>)}]
    /\ files["user"] = NoFile
    /\ dataFile \in {NoDataFile,
                      save(NoDataFile, "b", MarketplaceState(LOC, LocalLocation(LOC)))}
    /\ installDir \in {[n \in Names |-> NoDir],
                       [n \in Names |-> IF n = RaceName THEN RaceName ELSE NoDir]}
    /\ localDir = InitLocalDir
    /\ tmpDir = NoDir
    /\ op = Idle
    /\ last = Summary(Idle)
    /\ \E scope \in MarketplaceScope : procs = [p \in RaceProcs |-> Proc(scope, RaceName, GH)]

Goto(p, pc) == [procs EXCEPT ![p].pc = pc]
Finish(p, result) == [procs EXCEPT ![p].pc = "done", ![p].result = result]

\* parse_source, _fetch_marketplace_to_temp and _validate_and_extract_manifest:
\* the clone goes to a directory named by a fresh uuid, private to the process
RaceFetch(p) ==
    /\ procs[p].pc = "fetch"
    /\ procs' = [Goto(p, "check_global") EXCEPT ![p].tmp = procs[p].name]
    /\ UNCHANGED <<files, dataFile, installDir, localDir, tmpDir, op, last>>

\* _check_for_duplicate: has_marketplace -> load -> _load_all_scopes reads the
\* GLOBAL, PROJECT and USER file one after the other; any() runs over the merge
\* of the three documents as they were read
RaceCheckRead(p, scope) ==
    /\ procs[p].pc = "check_" \o scope
    /\ LET seen == [procs[p].seen EXCEPT ![scope] = files[scope]]
           next == IF scope = "global" THEN "check_project"
                   ELSE IF scope = "project" THEN "check_user" ELSE "exists"
       IN procs' =
            IF scope = "user" /\ has_marketplace(seen, procs[p].name, procs[p].source)
            THEN [Finish(p, "AlreadyExistsError") EXCEPT ![p].seen = seen]
            ELSE [Goto(p, next) EXCEPT ![p].seen = seen]
    /\ UNCHANGED <<files, dataFile, installDir, localDir, tmpDir, op, last>>

\* _move_to_data_directory: final_location.exists()
RaceExists(p) ==
    /\ procs[p].pc = "exists"
    /\ LET found == installDir[procs[p].name] # NoDir
       IN procs' = [Goto(p, IF found THEN "rmtree" ELSE "move") EXCEPT ![p].found = found]
    /\ UNCHANGED <<files, dataFile, installDir, localDir, tmpDir, op, last>>

\* shutil.rmtree(final_location): FileNotFoundError when the other process
\* removed the directory after exists() answered; the exception is not caught
RaceRmtree(p) ==
    /\ procs[p].pc = "rmtree"
    /\ IF installDir[procs[p].name] = NoDir
       THEN /\ procs' = Finish(p, "raised")
            /\ UNCHANGED installDir
       ELSE /\ installDir' = [installDir EXCEPT ![procs[p].name] = NoDir]
            /\ procs' = Goto(p, "move")
    /\ UNCHANGED <<files, dataFile, localDir, tmpDir, op, last>>

\* shutil.move(temp_dir, final_location): a rename when final_location is
\* free; when the other process has put its directory there in the meantime
\* the clone is moved inside it, under its uuid name, and the tree at
\* final_location keeps the manifest it has
RaceMove(p) ==
    /\ procs[p].pc = "move"
    /\ installDir' = IF installDir[procs[p].name] = NoDir
                     THEN [installDir EXCEPT ![procs[p].name] = procs[p].tmp]
                     ELSE installDir
    /\ procs' = [Goto(p, "state_read") EXCEPT ![p].tmp = NoDir]
    /\ UNCHANGED <<files, dataFile, localDir, tmpDir, op, last>>

\* FileDataStore.save: data_file.exists() and json.loads(data_file.read_text())
RaceStateRead(p) ==
    /\ procs[p].pc = "state_read"
    /\ procs' = [Goto(p, "state_write") EXCEPT ![p].existing_data = dataFile]
    /\ UNCHANGED <<files, dataFile, installDir, localDir, tmpDir, op, last>>

\* FileDataStore.save: existing_data[key] = data; data_file.write_text(...)
RaceStateWrite(p) ==
    /\ procs[p].pc = "state_write"
    /\ dataFile' = save(procs[p].existing_data, procs[p].name,
                        MarketplaceState(procs[p].source, DataLocation(procs[p].name)))
    /\ procs' = Goto(p, "config_read")
    /\ UNCHANGED <<files, installDir, localDir, tmpDir, op, last>>

\* add_marketplace: load_scope(config_scope) reads the target file
RaceConfigRead(p) ==
    /\ procs[p].pc = "config_read"
    /\ procs' = [Goto(p, "config_write") EXCEPT
                    ![p].existing_config = files[ConfigScopeOf(procs[p].scope)]]
    /\ UNCHANGED <<files, dataFile, installDir, localDir, tmpDir, op, last>>

\* add_marketplace: the list that was read, with the new entry appended, is
\* written over the target file by _write_scope_data
RaceConfigWrite(p) ==
    /\ procs[p].pc = "config_write"
    /\ LET config_scope == ConfigScopeOf(procs[p].scope)
           as_read == [files EXCEPT ![config_scope] = procs[p].existing_config]
           written == add_marketplace(as_read, Entry(procs[p].name, procs[p].source), procs[p].scope)
       IN files' = [files EXCEPT ![config_scope] = written[config_scope]]
    /\ procs' = Goto(p, "info")
    /\ UNCHANGED <<dataFile, installDir, localDir, tmpDir, op, last>>

\* _build_marketplace_info: json.loads of the manifest under final_location,
\* unguarded; the directory is gone while the other process is between its
\* rmtree and its move
RaceInfo(p) ==
    /\ procs[p].pc = "info"
    /\ procs' = Finish(p, IF installDir[procs[p].name] \in Names THEN "ok" ELSE "raised")
    /\ UNCHANGED <<files, dataFile, installDir, localDir, tmpDir, op, last>>

NextRace ==
    \E p \in RaceProcs :
        \/ RaceFetch(p)
        \/ \E scope \in Scopes : RaceCheckRead(p, scope)
        \/ RaceExists(p)
        \/ RaceRmtree(p)
        \/ RaceMove(p)
        \/ RaceStateRead(p)
        \/ RaceStateWrite(p)
        \/ RaceConfigRead(p)
        \/ RaceConfigWrite(p)
        \/ RaceInfo(p)

SpecRace == InitRace /\ [][NextRace]_vars

\* two concurrent invocations that add different marketplaces to one scope:
\* process 1 the github source o/r with manifest name "a", process 2 the git
\* source https://h/r.git with manifest name "b"
InitRaceApart ==
    /\ files \in [Scopes -> {NoFile, Doc(<<>>)}]
    /\ files["user"] = NoFile
    /\ dataFile = NoDataFile
    /\ installDir \in {[n \in Names |-> NoDir], [n \in Names |-> n]}
    /\ localDir = InitLocalDir
    /\ tmpDir = NoDir
    /\ op = Idle
    /\ last = Summary(Idle)
    /\ \E scope \in MarketplaceScope :
          procs = [p \in RaceProcs |->
                      IF p = 1 THEN Proc(scope, "a", GH) ELSE Proc(scope, "b", GIT)]

SpecRaceApart == InitRaceApart /\ [][NextRace]_vars

----------------------------------------------------------------------------
(* parse_source on bounded inputs: every text of up to MaxParts pieces,    *)
(* with and without a directory at the path the trimmed text names         *)

MaxParts == 4
RECURSIVE Join(_)
Join(parts) == IF parts = <<>> THEN <<>> ELSE Head(parts) \o Join(Tail(parts))
ParseTexts ==
    LET pieces == {<<"o">>, <<"/">>, <<".">>, <<" ">>, <<":">>,
                   DotGit, GitAt, GitProto, Https, Http}
    IN {Join(parts) : parts \in UNION {[1..k -> pieces] : k \in 0..MaxParts}}

InitParse ==
    /\ files = [s \in Scopes |-> NoFile]
    /\ dataFile = NoDataFile
    /\ installDir = [n \in Names |-> NoDir]
    /\ localDir \in {NoDir, InitLocalDir}
    /\ tmpDir = NoDir
    /\ \E source \in ParseTexts : op = [Idle EXCEPT !.input = source]
    /\ last = Summary(Idle)
    /\ procs = NoProcs

\* parse_source(source): the result is the source type or "error"
Parse ==
    /\ op.pc = "idle"
    /\ op' = [op EXCEPT !.kind = "parse", !.pc = "done", !.steps = <<"parse">>,
                        !.result = parse_text(op.input, localDir # NoDir)]
    /\ UNCHANGED <<files, dataFile, installDir, localDir, tmpDir, last, procs>>

SpecParse == InitParse /\ [][Parse]_vars

----------------------------------------------------------------------------
(* FileDataStore on its own: any series of save, delete and load calls,    *)
(* starting without a data file and with no I/O error of the environment   *)

InitStore ==
    /\ files = [s \in Scopes |-> NoFile]
    /\ dataFile = NoDataFile
    /\ installDir = [n \in Names |-> NoDir]
    /\ localDir = InitLocalDir
    /\ tmpDir = NoDir
    /\ op = Idle
    /\ last = Summary(Idle)
    /\ procs = NoProcs

StoreCall(kind, key) ==
    [Begin(kind, "", "") EXCEPT !.pc = "done", !.name = key, !.steps = <<kind>>]

StoreSave ==
    /\ \E key \in Names,
          data \in {MarketplaceState(GH, DataLocation("a")),
                    MarketplaceState(GIT, DataLocation("b")),
                    MarketplaceState(LOC, LocalLocation(LOC))} :
          /\ dataFile' = save(dataFile, key, data)
          /\ op' = [StoreCall("save", key) EXCEPT !.state = data, !.result = "ok"]
    /\ UNCHANGED <<files, installDir, localDir, tmpDir, last, procs>>

StoreDelete ==
    /\ \E key \in Names :
          /\ dataFile' = delete(dataFile, key)
          /\ op' = [StoreCall("delete", key) EXCEPT !.result = "ok"]
    /\ UNCHANGED <<files, installDir, localDir, tmpDir, last, procs>>

StoreLoad ==
    /\ \E key \in Names :
          op' = [StoreCall("load", key) EXCEPT
                    !.state = datastore_load(dataFile, key),
                    !.result = IF HasKey(dataFile, key) THEN "ok" ELSE "KeyNotFound"]
    /\ UNCHANGED <<files, dataFile, installDir, localDir, tmpDir, last, procs>>

NextStore == StoreSave \/ StoreDelete \/ StoreLoad

SpecStore == InitStore /\ [][NextStore]_vars

----------------------------------------------------------------------------
(* Marketplace.remove on installations whose names may have the shape of a *)
(* source: a manifest name is any non-empty string                         *)

ResolveDocs ==
    {Doc(<<Entry("a", GH)>>), Doc(<<Entry("o/r", GH)>>), Doc(<<Entry("o/r", LOC)>>),
     Doc(<<Entry("/m", GH)>>), Doc(<<Entry("a", GH), Entry("b", LOC)>>)}

InitResolve ==
    /\ files \in [Scopes -> ResolveDocs \cup {NoFile}]
    /\ files["global"] \in ResolveDocs
    /\ files["project"] \in {NoFile, Doc(<<Entry("b", LOC)>>)}
    /\ files["user"] = NoFile
    /\ dataFile \in ReadData
    /\ installDir \in [Names -> {NoDir, "a"}]
    /\ installDir["b"] = NoDir
    /\ localDir = InitLocalDir
    /\ tmpDir = NoDir
    /\ op = Idle
    /\ last = Summary(Idle)
    /\ procs = NoProcs

NextResolve ==
    \/ RemoveResolveName \/ RemoveFromConfig \/ RemoveLoadState
    \/ RemoveDeleteState \/ RemoveCleanupDirectory

SpecResolve == InitResolve /\ [][NextResolve]_vars

----------------------------------------------------------------------------
(* The lifecycle from empty stores, in runs where no I/O step fails        *)

InitClean == Init /\ \A s \in Scopes : files[s] = NoFile

NextClean == Next /\ ~op'.fault

SpecClean == InitClean /\ [][NextClean]_vars

----------------------------------------------------------------------------
(* Claims about the scope merge (checked under SpecMerge)                  *)

Loaded == op.kind = "load" /\ op.pc = "done"

\* the lists of the scope files that exist, in merge order
ScopeLists ==
    (IF files["global"].exists THEN files["global"].marketplaces ELSE <<>>)
    \o (IF files["project"].exists THEN files["project"].marketplaces ELSE <<>>)
    \o (IF files["user"].exists THEN files["user"].marketplaces ELSE <<>>)

\* names in the order in which they are first seen
RECURSIVE FirstSeen(_, _)
FirstSeen(list, seen) ==
    IF list = <<>> THEN <<>>
    ELSE IF Head(list).name \in seen THEN FirstSeen(Tail(list), seen)
         ELSE <<Head(list).name>> \o FirstSeen(Tail(list), seen \cup {Head(list).name})

\* the last scope (user, then project, then global) whose file defines name n
LastDefining(n) ==
    IF files["user"].exists /\ n \in NameSet(files["user"].marketplaces) THEN "user"
    ELSE IF files["project"].exists /\ n \in NameSet(files["project"].marketplaces) THEN "project"
    ELSE "global"

EachScopeDistinct == \A s \in Scopes : Distinct(files[s].marketplaces)

\* C3: for every combination of scope documents the names of the merged
\* marketplaces list are pairwise distinct.
C3_MergedNamesDistinct ==
    Loaded => Distinct(op.merged)

\* C4: every name sits at the position where it was first seen in the order
\* global, project, user, and carries the source given by the last scope that
\* defines it.
C4_FirstSeenPositionLastSeenValue ==
    Loaded =>
        /\ SeqNames(op.merged) = FirstSeen(ScopeLists, {})
        /\ \A i \in 1..Len(op.merged) :
              \E j \in 1..Len(files[LastDefining(op.merged[i].name)].marketplaces) :
                  files[LastDefining(op.merged[i].name)].marketplaces[j] = op.merged[i]

\* What the merge does guarantee: when no single scope file repeats a name,
\* the merged names are distinct and C4's placement rule holds.
MergeOfDistinctScopes ==
    (Loaded /\ EachScopeDistinct) =>
        /\ Distinct(op.merged)
        /\ SeqNames(op.merged) = FirstSeen(ScopeLists, {})
        /\ \A i \in 1..Len(op.merged) :
              \E j \in 1..Len(files[LastDefining(op.merged[i].name)].marketplaces) :
                  files[LastDefining(op.merged[i].name)].marketplaces[j] = op.merged[i]

\* C26: the marketplaces merge is idempotent: merging an already merged list
\* with itself gives that list, same entries in the same order.
C26_MergeIdempotent ==
    Loaded => _merge_marketplaces(op.merged, op.merged) = op.merged

C26_Witness ==
    /\ Loaded /\ Len(op.merged) >= 2
    /\ files["global"].marketplaces # <<>> /\ files["project"].marketplaces # <<>>
    /\ _merge_marketplaces(op.merged, op.merged) = op.merged

----------------------------------------------------------------------------
(* Claims about add and remove (checked under Spec)                        *)

AddDone == op.kind = "add" /\ op.pc = "done"
RemoveDone == op.kind = "remove" /\ op.pc = "done"
Remote(source) == source.type \in {"github", "git"}

FilesUnchanged == files = op.snap.files
StateUnchanged == dataFile = op.snap.dataFile
InstallDirsUnchanged == installDir = op.snap.installDir

\* entries named n over the three scope files
TotalCount(f, n) ==
    Count(f["global"].marketplaces, n) + Count(f["project"].marketplaces, n)
        + Count(f["user"].marketplaces, n)

\* C1: an add that ends in AlreadyExists created, modified or removed no scope
\* file, no install-state file and no directory on disk.
C1_DuplicateAddMutatesNothing ==
    (AddDone /\ op.result = "AlreadyExistsError") =>
        /\ FilesUnchanged /\ StateUnchanged /\ InstallDirsUnchanged
        /\ tmpDir = NoDir

\* C2: when an entry of any scope file has the manifest name or the resolved
\* source, add ends in AlreadyExists.
InSomeScopeFile(f, name, source) ==
    \E sc \in Scopes : \E i \in 1..Len(f[sc].marketplaces) :
        \/ f[sc].marketplaces[i].name = name
        \/ f[sc].marketplaces[i].source = source

Ran(step) == \E i \in 1..Len(op.steps) : op.steps[i] = step

C2_DuplicateCheckSeesAllScopes ==
    (op.kind = "add" /\ Ran("check")
        /\ InSomeScopeFile(op.snap.files, op.name, op.source)) =>
        op.result = "AlreadyExistsError"

\* C5: the steps of add run in the order resolve, fetch, validate, duplicate
\* check, move, persist state, persist config; nothing runs after the step
\* that failed; a failure in one of the first four leaves the install-state
\* store and every scope file unchanged.
AddOrder ==
    <<"parse", "fetch", "validate", "check", "move", "save_state", "save_config", "info">>

C5_AddShortCircuits ==
    op.kind = "add" =>
        /\ Len(op.steps) <= Len(AddOrder)
        /\ op.steps = SubSeq(AddOrder, 1, Len(op.steps))
        /\ op.failedAt # "" => op.pc = "done" /\ op.steps[Len(op.steps)] = op.failedAt
        /\ op.failedAt \in {"parse", "fetch", "validate", "check"} =>
              FilesUnchanged /\ StateUnchanged

C5_Witness ==
    /\ AddDone /\ op.failedAt = "check" /\ op.result = "AlreadyExistsError"
    /\ op.steps = <<"parse", "fetch", "validate", "check">>

C7_StateFailureLeavesDirectory ==
    (AddDone /\ op.failedAt = "save_state" /\ Remote(op.source)) =>
        /\ op.result \notin {"ok", "pending"}
        /\ op.dir = DataLocation(op.name)
        /\ installDir[op.name] = op.name
        /\ tmpDir = NoDir
        /\ FilesUnchanged

C7_Witness ==
    /\ AddDone /\ op.failedAt = "save_state" /\ Remote(op.source)
    /\ op.snap.installDir[op.name] = NoDir /\ installDir[op.name] = op.name

\* C8: an add repeated right after an add of the same source and scope that
\* saved the state but failed to save the config entry is not rejected as a
\* duplicate, and when it succeeds the store has one record and the scope
\* files one entry for the name.
Retry(kind) ==
    /\ op.kind = kind /\ op.pc = "done"
    /\ last.kind = kind /\ last.input = op.input /\ last.scope = op.scope

C8_AddRetryAfterGap ==
    (Retry("add") /\ last.failedAt = "save_config" /\ op.name = last.name) =>
        /\ op.failedAt # "check"
        /\ ~op.fault => op.result = "ok"
        /\ op.result = "ok" =>
              /\ Records \cap {op.name} = {op.name}
              /\ dataFile.data[op.name] = MarketplaceState(op.source, op.dir)
              /\ TotalCount(files, op.name) = 1
              /\ Count(files[op.scope].marketplaces, op.name) = 1

C8_Witness ==
    /\ Retry("add") /\ last.failedAt = "save_config" /\ op.name = last.name
    /\ op.result = "ok" /\ HasKey(op.snap.dataFile, op.name)

\* C9: a remove(name) repeated right after a remove(name) that deleted the
\* config entry but failed before the cleanup was complete returns success,
\* and afterwards neither an install-state record nor a non-local install
\* directory of that name is left.
C9_RemoveRetryAfterGap ==
    (Retry("remove") /\ last.input \in Names /\ ~op.fault
        /\ last.failedAt \in {"load_state", "delete_state", "cleanup"}
        /\ (HasKey(op.snap.dataFile, last.name) \/ op.snap.installDir[last.name] # NoDir)) =>
        /\ op.result = "ok"
        /\ ~HasKey(dataFile, last.name)
        /\ installDir[last.name] = NoDir

\* C10: a remove that finds the config entry but no install-state record
\* succeeds: the entry is gone from its scope file, neither a state-store
\* delete nor a directory deletion is attempted, and the name is returned.
FoundNoState ==
    /\ RemoveDone /\ ~op.fault
    /\ Ran("load_state")
    /\ ~HasKey(op.snap.dataFile, op.name)

C11_DirectoryDeletedBeforeState ==
    (op.kind = "remove" /\ op.state.present /\ Remote(op.state.source)
        /\ "datastore.delete" \in op.calls) =>
        Content(op.state.install_location) = NoDir

\* C12: when no scope file that remove searches holds an entry of the resolved
\* name, remove ends in NotFound after the config step at the latest, and the
\* state store, every install directory and every scope file are as before.
Searched(scope) == IF scope = AnyScope THEN MarketplaceScope ELSE {scope}
Holds(f, sc, n) == n \in NameSet(f[sc].marketplaces)
NotInSearched ==
    /\ op.kind = "remove"
    /\ \A sc \in Searched(op.scope) : ~Holds(op.snap.files, sc, op.name)

C12_RemoveNotFoundShortCircuits ==
    NotInSearched =>
        /\ Len(op.steps) <= 2
        /\ op.pc = "done" => op.result = "NotFoundError"
        /\ op.calls = {}
        /\ FilesUnchanged /\ StateUnchanged /\ InstallDirsUnchanged
        /\ localDir = InitLocalDir

C12_Witness ==
    /\ RemoveDone /\ NotInSearched /\ Ran("remove_config")
    /\ op.result = "NotFoundError"
    /\ TotalCount(op.snap.files, op.name) > 0

\* C13: the directory of a local source is never copied, moved or deleted: it
\* keeps its content, an add of a local source clones and moves nothing and
\* records the source path as install location, and remove deletes a
\* directory only when the recorded source is not local.
C13_LocalDirectoryUntouched ==
    /\ localDir = InitLocalDir
    /\ \A n \in Records : dataFile.data[n].source.type = "local" =>
          dataFile.data[n].install_location = LocalLocation(dataFile.data[n].source)
    /\ (op.kind = "add" /\ op.source.type = "local") =>
          /\ op.calls \cap {"clone", "move"} = {}
          /\ Ran("fetch") => op.dir = LocalLocation(op.source)
    /\ (op.kind = "remove" /\ "rmtree" \in op.calls) => Remote(op.state.source)

C13_Witness ==
    /\ RemoveDone /\ op.result = "ok" /\ Ran("cleanup")
    /\ op.state.present /\ op.state.source.type = "local"
    /\ op.state.install_location = LocalLocation(op.state.source)
    /\ localDir = InitLocalDir

\* C14: in every reachable state, also after an operation that failed at any
\* step, the install_location of every install-state record holds a readable,
\* valid marketplace.json.
C14_StateRecordsHaveManifest ==
    \A n \in Records : validate_marketplace(Content(dataFile.data[n].install_location)).ok

\* C15: list never fails, and it returns exactly the merged entries whose
\* state load and manifest re-validation at install_location both succeed.
Revalidated(names) ==
    {n \in names : validate_marketplace(Content(dataFile.data[n].install_location)).ok}

C15_ListSkipsFailingEntries ==
    (op.kind = "list" /\ op.pc = "done") =>
        /\ op.result = "ok"
        /\ op.listed = ListInfos(op.merged, Revalidated(op.loaded))

\* C16: get(name) returns the info when the state record loads and the
\* manifest at install_location is present and valid, and NotFound in every
\* other case.
C16_GetNotFoundOnAnyFailure ==
    (op.kind = "get" /\ op.pc = "done") =>
        IF Revalidated(op.loaded) = {op.name}
        THEN op.result = "ok" /\ op.info = op.name
        ELSE op.result = "NotFoundError"

\* C17: no add, remove, list or get ends with a raw exception: every failure
\* is a structured error value.
C17_NoRawException ==
    op.result # "raised"

\* C18: remove_marketplace with an explicit scope modifies only that scope's
\* file; with scope=None at most one scope file is modified, PROJECT when it
\* holds the name and otherwise GLOBAL, and NotFound is returned when
\* neither holds the name.
Changed == {sc \in Scopes : files[sc] # op.snap.files[sc]}

C18_RemoveModifiesOneScope ==
    (op.kind = "remove" /\ Ran("remove_config")) =>
        /\ op.scope # AnyScope => Changed \subseteq {op.scope}
        /\ op.scope = AnyScope =>
              /\ Cardinality(Changed) <= 1
              /\ Changed \subseteq (IF Holds(op.snap.files, "project", op.name)
                                     THEN {"project"} ELSE {"global"})
              /\ (~Holds(op.snap.files, "project", op.name)
                    /\ ~Holds(op.snap.files, "global", op.name)) =>
                    op.failedAt = "remove_config" /\ op.result = "NotFoundError"

\* C19: after a successful remove_marketplace(name, scope=None) neither the
\* PROJECT nor the GLOBAL file contains an entry of that name.
C19_RemoveFromAllScopes ==
    (op.kind = "remove" /\ op.scope = AnyScope /\ Ran("remove_config")
        /\ op.failedAt # "remove_config") =>
        \A sc \in MarketplaceScope : ~Holds(files, sc, op.name)

\* C20: a successful add_marketplace leaves the target scope file with the
\* new entry appended at the end of its list and with every other key of the
\* document as it was.
C20_AddPreservesOtherKeys ==
    (op.kind = "add" /\ Ran("save_config") /\ op.failedAt # "save_config") =>
        /\ files[op.scope].marketplaces =
              Append(op.snap.files[op.scope].marketplaces, Entry(op.name, op.source))
        /\ files[op.scope].extra = op.snap.files[op.scope].extra

\* C21: after a successful add_marketplace(entry, scope), load_scope of the
\* same scope returns a document whose marketplaces list contains an entry of
\* the same name and source, whether or not the scope file existed before.
ConfigSaved == op.kind = "add" /\ Ran("save_config") /\ op.failedAt # "save_config"

C21_AddThenLoadScope ==
    ConfigSaved =>
        /\ load_scope(files, op.scope).ok /\ ~load_scope(files, op.scope).none
        /\ \E i \in 1..Len(load_scope(files, op.scope).marketplaces) :
              load_scope(files, op.scope).marketplaces[i] = Entry(op.name, op.source)

C21_Witness ==
    /\ ConfigSaved /\ ~op.snap.files[op.scope].exists
    /\ op.source.type = "local"

\* C22: no add and no remove creates or modifies the USER scope file.
C22_UserFileNeverWritten ==
    [][files'["user"] = files["user"]]_vars

C22_Witness ==
    /\ RemoveDone /\ op.result = "ok"
    /\ files["user"].exists /\ files # op.snap.files

----------------------------------------------------------------------------
(* Claims about load and the merge of other keys (checked under SpecDict)  *)

LoadDone == op.kind = "load" /\ op.pc = "done"

\* C23: load reads the scopes in the order GLOBAL, PROJECT, USER and stops at
\* the first scope that fails to load: it returns that scope's error, reads
\* no later scope and produces no merged config.
Order == <<"global", "project", "user">>
FailsToLoad(sc) == files[sc].exists /\ ~_load_scope_config(files[sc], sc).ok
FirstFailing ==
    IF \E i \in 1..3 : FailsToLoad(Order[i])
    THEN CHOOSE i \in 1..3 :
            FailsToLoad(Order[i]) /\ \A j \in 1..(i - 1) : ~FailsToLoad(Order[j])
    ELSE 0
Existing(scopes) == SelectSeq(scopes, LAMBDA sc : files[sc].exists)

C23_LoadFailFast ==
    LoadDone =>
        IF FirstFailing = 0
        THEN op.result = "ok" /\ op.reads = Existing(Order)
        ELSE /\ op.result = _load_scope_config(files[Order[FirstFailing]],
                                               Order[FirstFailing]).error
             /\ op.error_scope = Order[FirstFailing]
             /\ op.reads = Existing(SubSeq(Order, 1, FirstFailing))
             /\ op.merged = <<>> /\ op.effective = EmptyMap

C23_Witness ==
    /\ LoadDone /\ op.error_scope = "project"
    /\ files["global"].exists /\ files["user"].exists
    /\ op.reads = <<"global", "project">>

\* the value a scope document gives to a top-level key and to a nested key
\* (None when the key is absent)
ScopeDict(sc) == IF files[sc].exists THEN files[sc].extra ELSE EmptyMap
At1(d, k) == IF k \in DOMAIN d THEN d[k] ELSE None
At2(d, k, j) ==
    IF At1(d, k).t = "map" /\ j \in DOMAIN At1(d, k).m THEN At1(d, k).m[j] ELSE None
IsSet(v) == v.t # "none"
\* the scope decides key k / nested key k.j: it sets it, or (nested) it puts a
\* value that is not a mapping in the place of the parent
Decides1(sc, k) == IsSet(At1(ScopeDict(sc), k))
Decides2(sc, k, j) ==
    \/ IsSet(At2(ScopeDict(sc), k, j))
    \/ IsSet(At1(ScopeDict(sc), k)) /\ At1(ScopeDict(sc), k).t # "map"
Highest(D(_)) ==
    IF D("user") THEN "user" ELSE IF D("project") THEN "project"
    ELSE IF D("global") THEN "global" ELSE ""
TopKeys == {"p"}
NestedKeys == {"x", "y"}

TopScope ==
    IF files["user"].exists THEN "user"
    ELSE IF files["project"].exists THEN "project" ELSE "global"
Below(sc) ==
    merge_other_keys(IF sc = "global" THEN NoFile ELSE files["global"],
                     IF sc \in {"global", "project"} THEN NoFile ELSE files["project"],
                     NoFile)

C25_NoneNeverClobbers ==
    (LoadDone /\ op.result = "ok") =>
        LET top == ScopeDict(TopScope)
            below == Below(TopScope)
        IN /\ \A k \in TopKeys :
                 /\ ~IsSet(At1(top, k)) => At1(op.effective, k) = At1(below, k)
                 /\ At1(top, k).t = "scalar" => At1(op.effective, k) = At1(top, k)
           /\ \A k \in TopKeys, j \in NestedKeys :
                 /\ (At1(top, k).t = "map" /\ ~IsSet(At2(top, k, j))) =>
                       At2(op.effective, k, j) = At2(below, k, j)
                 /\ At2(top, k, j).t = "scalar" =>
                       At2(op.effective, k, j) = At2(top, k, j)

C25_Witness ==
    /\ LoadDone /\ op.result = "ok"
    /\ At2(ScopeDict("global"), "p", "x") = Scalar("x")
    /\ files["project"].exists /\ "p" \in DOMAIN files["project"].extra
    /\ files["project"].extra["p"].t = "map"
    /\ "x" \in DOMAIN files["project"].extra["p"].m
    /\ files["project"].extra["p"].m["x"] = None
    /\ ~files["user"].exists
    /\ At2(op.effective, "p", "x") = Scalar("x")

----------------------------------------------------------------------------
(* Claims about environment overrides (checked under SpecOverlay)          *)

\* C27: when an environment variable supplies a list for the marketplaces
\* key, the effective marketplaces list is exactly that list: it replaces
\* the list merged from the scope files, with no merge by name.
EnvListGiven ==
    /\ LoadDone /\ "marketplaces" \in DOMAIN op.env
    /\ op.env["marketplaces"].t = "list"

C27_EnvReplacesMarketplaces ==
    EnvListGiven => op.result = "ok" /\ op.merged = op.env["marketplaces"].l

C27_Witness ==
    /\ EnvListGiven /\ op.result = "ok"
    /\ load(files) = <<Entry("a", GH), Entry("b", GH)>>
    /\ op.merged = <<Entry("b", LOC)>>

\* C28: for a config and an overlay without list values the overlay merge
\* gives what the scope deep merge gives for (config, overlay): mappings are
\* merged key by key, scalars replaced, and a None of the overlay does not
\* clobber an existing value.
RECURSIVE NoLists(_)
NoLists(m) ==
    \A k \in DOMAIN m :
        /\ m[k].t # "list"
        /\ m[k].t = "map" => NoLists(m[k].m)
MergedOther == merge_other_keys(files["global"], files["project"], files["user"])

C28_EnvMergeLikeScopeMerge ==
    (LoadDone /\ op.env # EmptyMap /\ "marketplaces" \notin DOMAIN op.env
        /\ NoLists(op.env) /\ NoLists(MergedOther)) =>
        /\ op.result = "ok"
        /\ op.effective = deep_merge_other(MergedOther, op.env)

----------------------------------------------------------------------------
(* Claim about concurrent adds (checked under SpecRace)                    *)

\* C29: when two add invocations for the same marketplace interleave at
\* single file reads and writes, every final state has exactly one entry of
\* that name in the target scope file and a state record for it.
RaceDone == procs # NoProcs /\ \A p \in RaceProcs : procs[p].pc = "done"
RaceTarget == files[ConfigScopeOf(procs[1].scope)]

C29_ConcurrentAddLastWriteWins ==
    RaceDone =>
        /\ Count(RaceTarget.marketplaces, RaceName) = 1
        /\ HasKey(dataFile, RaceName)

----------------------------------------------------------------------------
(* Claim about source classification (checked under SpecParse)             *)

\* C31: a non-empty trimmed input of owner/repo shape is a GithubSource;
\* otherwise one that starts with git@ or git://, ends with .git or is an
\* http(s) URL with a host is a GitSource; every other input is a
\* LocalSource if it is an existing directory and a ParseError if not.
ParseDone == op.kind = "parse" /\ op.pc = "done"
OwnerRepoShaped(value) == github_fullmatch(value)
GitLike(value) ==
    \/ StartsWith(value, GitAt) \/ StartsWith(value, GitProto)
    \/ EndsWith(value, DotGit) \/ HttpWithHost(value)

C31_FirstMatchWins ==
    (ParseDone /\ strip(op.input) # <<>>) =>
        LET value == strip(op.input)
        IN op.result = IF OwnerRepoShaped(value) THEN "github"
                       ELSE IF GitLike(value) THEN "git"
                       ELSE IF localDir # NoDir THEN "local" ELSE "error"

----------------------------------------------------------------------------
(* Claims about name resolution in remove (checked under Spec)             *)

\* C32: when the input of remove parses as a source, the entry removed is
\* the merged-config entry whose source equals that source; when it does not
\* parse, the input string itself is the marketplace name.
RemovedEntry ==
    op.kind = "remove" /\ Ran("remove_config") /\ op.failedAt # "remove_config"
MergedBefore == get_marketplace_config(op.snap.files)

C32_RemoveResolvesBySource ==
    RemovedEntry =>
        IF parse_source(op.input).ok
        THEN /\ \E i \in 1..Len(MergedBefore) :
                   /\ MergedBefore[i].source = parse_source(op.input).source
                   /\ MergedBefore[i].name = op.info
             /\ op.source = parse_source(op.input).source
        ELSE op.name = op.input /\ op.info = op.input

----------------------------------------------------------------------------
(* Claim about the install-state store (checked under SpecStore)           *)

\* C33: the store is a flat map: after save(k, v) a load of k gives v, after
\* delete(k) it gives KeyNotFound, both leave what every other key loads
\* unchanged, load changes nothing and returns what the last save or delete
\* of the key left, and delete of an absent key or without a data file
\* succeeds.
StoreDone == op.kind \in {"save", "delete", "load"} /\ op.pc = "done"
OthersUnchanged ==
    \A j \in Names \ {op.name} :
        datastore_load(dataFile, j) = datastore_load(op.snap.dataFile, j)

C33_StoreIsFlatMap ==
    StoreDone =>
        /\ op.kind = "save" =>
              /\ datastore_load(dataFile, op.name) = op.state
              /\ OthersUnchanged
        /\ op.kind = "delete" =>
              /\ op.result = "ok"
              /\ datastore_load(dataFile, op.name) = NoState
              /\ OthersUnchanged
        /\ op.kind = "load" =>
              /\ dataFile = op.snap.dataFile
              /\ op.state = datastore_load(dataFile, op.name)
              /\ op.result = IF op.state = NoState THEN "KeyNotFound" ELSE "ok"

C33_Witness ==
    /\ StoreDone /\ op.kind = "delete"
    /\ HasKey(op.snap.dataFile, op.name)
    /\ \E j \in Names \ {op.name} : HasKey(dataFile, j)

----------------------------------------------------------------------------
(* Claim about the read operations (checked under Spec)                    *)

\* C34: list and get change no install-state record, no scope file and no
\* install directory; a state record appears only in a step of add and
\* disappears only in a step of remove.
ReadOnlyStep ==
    op'.kind \in {"list", "get"} =>
        /\ files' = files /\ dataFile' = dataFile
        /\ installDir' = installDir /\ localDir' = localDir
StateLifecycleStep ==
    \A n \in Names :
        /\ (~HasKey(dataFile, n) /\ HasKey(dataFile', n)) => op'.kind = "add"
        /\ (HasKey(dataFile, n) /\ ~HasKey(dataFile', n)) => op'.kind = "remove"

C34_ListAndGetReadOnly == [][ReadOnlyStep /\ StateLifecycleStep]_vars

C34_Witness ==
    /\ op.kind = "get" /\ op.pc = "done" /\ op.result = "ok"
    /\ HasKey(dataFile, op.name)
    /\ ~ManifestExists(Content(dataFile.data[op.name].install_location))
    /\ dataFile = op.snap.dataFile

----------------------------------------------------------------------------
(* Further claims about remove and about add followed by remove            *)

\* C35: after a successful remove called without a scope, the name removed is
\* no longer in the merged marketplace list of the config store.
C35_RemovedNameLeavesMergedConfig ==
    (RemoveDone /\ op.result = "ok" /\ op.scope = AnyScope) =>
        op.name \notin NameSet(get_marketplace_config(files))

\* C36: remove(input) succeeds for every input that is the name of an entry
\* of the PROJECT or GLOBAL scope file, whether or not the input also parses
\* as a source (no I/O error of the environment, and the scope given, if
\* any, is one that holds the entry).
NamedIn(f, sc, n) == n \in NameSet(f[sc].marketplaces)

C36_RemoveByNameSucceeds ==
    (/\ RemoveDone /\ ~op.fault
     /\ \E sc \in MarketplaceScope :
           /\ NamedIn(op.snap.files, sc, op.input)
           /\ op.scope \in {AnyScope, sc}) =>
        op.result = "ok"

\* C37: from a state with no entry, state record or install directory for
\* the marketplace, a successful add(source, scope) followed by a successful
\* remove(name, scope) leaves the marketplaces list of every scope, the set
\* of state records and the set of install directories as before the add.
Before == op.prior.snap
AddThenRemove ==
    /\ RemoveDone /\ op.result = "ok"
    /\ op.prior.name # "" /\ op.name = op.prior.name /\ op.scope = op.prior.scope
    /\ TotalCount(Before.files, op.name) = 0
    /\ ~HasKey(Before.dataFile, op.name)
    /\ Before.installDir[op.name] = NoDir

C37_AddRemoveRoundTrip ==
    AddThenRemove =>
        /\ \A sc \in Scopes : files[sc].marketplaces = Before.files[sc].marketplaces
        /\ Records = {n \in Names : HasKey(Before.dataFile, n)}
        /\ {n \in Names : installDir[n] # NoDir}
              = {n \in Names : Before.installDir[n] # NoDir}

C37_Witness ==
    /\ AddThenRemove
    /\ Remote(op.source)
    /\ \E sc \in MarketplaceScope : Before.files[sc].marketplaces # <<>>

\* C38: in a run from empty stores in which no I/O step fails, after each
\* operation the names with a state record are the names with an entry in
\* the GLOBAL or PROJECT scope file.
Configured ==
    NameSet(files["global"].marketplaces) \cup NameSet(files["project"].marketplaces)

C38_RecordsMatchConfig == CanStart => Records = Configured

C38_Witness ==
    /\ RemoveDone /\ op.result = "ok"
    /\ Records = Configured /\ Records # {}

\* C39: whenever add of a remote source returns an error after the fetch
\* succeeded, the temporary fetch directory of that call no longer exists.
C39_TempDirGoneAfterFailedAdd ==
    (/\ AddDone /\ Remote(op.source) /\ op.result # "ok"
     /\ Ran("fetch") /\ op.failedAt # "fetch") =>
        tmpDir = NoDir

----------------------------------------------------------------------------
(* Claim about concurrent adds of different marketplaces (SpecRaceApart)   *)

\* C40: when two add invocations for marketplaces of different names and
\* sources interleave at single file reads and writes and both return
\* success, the state store has a record for both names and the target scope
\* file an entry for both names.
C40_NoLostUpdate ==
    (RaceDone /\ \A p \in RaceProcs : procs[p].result = "ok") =>
        \A p \in RaceProcs :
            /\ HasKey(dataFile, procs[p].name)
            /\ Count(RaceTarget.marketplaces, procs[p].name) >= 1

====
